---- MODULE Spec2Model ----
(***************************************************************************)
(* State-machine model of backend/smokeball_receipt_automation.py:         *)
(* SmokeBallReceiptAutomation.run and the stages it drives (initialize,    *)
(* login with two-factor authentication, navigate_to_matter_transactions,  *)
(* fill_receipt_form, cleanup) and the process entry point main; and of     *)
(* backend/test-2fa-automation.py, the script that exercises the code      *)
(* generation on its own.                                                  *)
(*                                                                         *)
(* One action per awaited operation.  The web page, the browser library    *)
(* and the operator are the environment: every awaited call either         *)
(* succeeds or raises, is_visible answers TRUE or FALSE or raises, and a   *)
(* user interruption (Ctrl+C) may arrive at any await.                     *)
(***************************************************************************)
EXTENDS Integers, Sequences, FiniteSets, TLC

\* ---------------------------------------------------------------- bounds
MaxSecretLen == 2     \* longest configured 2FA secret
MaxItems == 2         \* most elements a locator(...).all() enumeration returns
MaxInterrupts == 2    \* most user interruptions in one run
MaxClock == 32        \* last second of the clock the test script can see

VARIABLES
  pc,            \* control position of the single thread of control
  env,           \* os.environ after load_dotenv: SMOKEBALL_* variables
  cli,           \* parsed command line flags: [test_mode, submit]
  test_mode,     \* self.test_mode
  credentials,   \* self.credentials: [username, password, two_factor_secret]
  pyotp,         \* whether the pyotp import succeeded (module-level pyotp)
  browser,       \* self.browser: "none" | "open" | "closed"
  page,          \* whether self.page is set
  url,           \* self.page.url, a sequence of path tokens
  shots,         \* names passed to take_screenshot, in call order
  exc,           \* the exception in flight: [kind, msg]
  failure,       \* the first Exception raised in this run: [stage, cause]
  result,        \* what run returned
  totpCalls,     \* calls of generate_totp_code by login
  prompted,      \* whether input('Enter 2FA code: ') was called
  code,          \* the two-factor code in hand: [src]
  current_url,   \* login's local current_url (<<>> until it is read)
  twoFaEntered,  \* whether the 'dashboard' not in current_url branch was taken
  navigated,     \* whether page.goto(transactions_url) was called
  idle_timeout,  \* whether the wait for 'networkidle' failed
  menuOpen,      \* whether the "Create New" menu was opened on the page
  strat,         \* deposit-control strategy being evaluated (0: none yet)
  tried,         \* strategies entered, in order
  items,         \* length of the list the current enumeration returned
  idx,           \* loop index into that list (1-based)
  opened,        \* strategy whose click opened the deposit form (0: none)
  fields,        \* form fields whose filling was attempted, in order
  commitClicked, \* whether 'Process/Open Receipt' was clicked
  closeCalls,    \* calls of browser.close()
  interrupts,    \* user interruptions delivered so far
  exitCode,      \* <<>> while the process runs, then <<status>> of sys.exit
  final_output,  \* the last thing the process printed before it exited
  \* ---- test-2fa-automation.py
  now,            \* time.time(), in whole seconds
  otp,            \* the code pyotp computes in each 30-second window
  tpc,            \* control position of the test script
  loop_i,         \* i of "for i in range(3)"
  tcode,          \* test_2fa_generation's code: <<>> or <<numeric value>>
  remaining_time, \* <<>> or <<[value, at]>>: remaining_time and the second
                  \* at which line 61 computed it
  test1_result,   \* <<>> or <<what test_2fa_generation returned>>
  test2_result,   \* <<>> or <<what test_automation_2fa_integration returned>>
  gen,            \* <<>> or <<[ok, err, code]>>: how the last call of
                  \* generate_totp_code outside login ended
  texit           \* <<>> or <<status>> of the test script's sys.exit

\* the automation process
automation == <<pc, env, cli, test_mode, credentials, pyotp, browser, page, url,
          shots, exc, failure, result, totpCalls, prompted, code, current_url,
          twoFaEntered, navigated, idle_timeout, menuOpen, strat, tried, items,
          idx, opened, fields, commitClicked, closeCalls, interrupts, exitCode,
          final_output>>
\* the test script
script == <<now, otp, tpc, loop_i, tcode, remaining_time, test1_result,
            test2_result, gen, texit>>
vars == <<automation, script>>

\* groups for UNCHANGED; a run of the automation never touches the test
\* script's state
config  == <<env, cli, test_mode, credentials, pyotp, script>>
twofa   == <<totpCalls, prompted, code, current_url, twoFaEntered>>
chain   == <<menuOpen, strat, tried, items, idx, opened>>
form    == <<fields, commitClicked>>
nav     == <<navigated, idle_timeout>>
closing == <<closeCalls, exitCode, final_output>>

\* ------------------------------------------------------------ exceptions
NoExc == [kind |-> "none", msg |-> <<>>]
\* an Exception subclass (TimeoutError, ValueError, TypeError, ...)
Error(msg) == [kind |-> "Exception", msg |-> msg]
\* KeyboardInterrupt / asyncio.CancelledError: BaseException, not Exception
Interrupted == [kind |-> "Interrupt", msg |-> <<"interrupted">>]

NoFailure == [stage |-> "none", cause |-> <<>>]
NoResult == [none |-> TRUE]

\* --------------------------------------------------------- configuration
\* main: test_mode = args.test_mode and not args.submit, where --test-mode
\* is a store_true flag whose default is already True
ParsedTestModeFlagDefaultFalse(given) == given
ParsedTestModeFlag(given) == TRUE
EffectiveTestMode(flags) == ParsedTestModeFlag(flags.test_mode) /\ ~flags.submit

\* a lower-case base32 digit and a character outside the base32 alphabet
SecretAlphabet == {"a", "1"}
SecretStrings == UNION {[1..n -> SecretAlphabet] : n \in 0..MaxSecretLen}
\* os.getenv('SMOKEBALL_2FA_SECRET'): None when unset, else the string
NoSecret == [present |-> FALSE, value |-> <<>>]
Secrets == {NoSecret} \cup {[present |-> TRUE, value |-> s] : s \in SecretStrings}

\* Python truthiness of the secret: None and '' are falsy
Truthy(s) == s.present /\ s.value # <<>>

\* an environment variable that is not set, and one set to value v
Unset == NoSecret
SetTo(v) == [present |-> TRUE, value |-> v]
\* the fallback literals of __init__
DefaultUsername == <<"pmanocha@stanford.au">>
DefaultPassword == <<"the password literal of __init__">>
\* os.getenv(name, default)
Getenv(var, default) == IF var.present THEN var.value ELSE default
\* __init__: self.credentials = {...}; os.getenv without a default is None
\* for a variable that is not set
LoadCredentials(e) ==
  [username |-> Getenv(e.SMOKEBALL_USERNAME, DefaultUsername),
   password |-> Getenv(e.SMOKEBALL_PASSWORD, DefaultPassword),
   two_factor_secret |-> e.SMOKEBALL_2FA_SECRET]

\* environments with both login variables set
ConfiguredEnvs ==
  [SMOKEBALL_USERNAME : {SetTo(<<"user@firm.example">>)},
   SMOKEBALL_PASSWORD : {SetTo(<<"secret">>)},
   SMOKEBALL_2FA_SECRET : Secrets]
\* environments with the login variables set or not, the 2FA secret unset or
\* a valid one
StartupEnvs ==
  [SMOKEBALL_USERNAME : {Unset, SetTo(<<"user@firm.example">>)},
   SMOKEBALL_PASSWORD : {Unset, SetTo(<<"secret">>)},
   SMOKEBALL_2FA_SECRET : {NoSecret, SetTo(<<"a", "a">>)}]

\* base64.b32decode(secret padded with '=' to a multiple of 8, casefold=True)
\* as pyotp.TOTP.byte_secret calls it: every character a base32 digit after
\* case folding, and a number of pad characters base32 allows
Casefold(c) == IF c = "a" THEN "A" ELSE c
Base32Digits == {"A", "7"}
PadCount(v) == IF Len(v) % 8 = 0 THEN 0 ELSE 8 - (Len(v) % 8)
ValidBase32(s) ==
  /\ \A i \in 1..Len(s.value) : Casefold(s.value[i]) \in Base32Digits
  /\ PadCount(s.value) \in {0, 1, 3, 4, 6}

\* generate_totp_code: [ok, err]
GenerateTotpMalformedAccepted(secret, lib) ==
  IF ~Truthy(secret) \/ ~lib
  THEN [ok |-> FALSE, err |-> "2FA secret not configured or pyotp not installed"]
  ELSE [ok |-> TRUE, err |-> ""]
GenerateTotpEmptyAccepted(secret, lib) ==
  IF ~secret.present \/ ~lib
  THEN [ok |-> FALSE, err |-> "2FA secret not configured or pyotp not installed"]
  ELSE IF ~ValidBase32(secret)
       THEN [ok |-> FALSE, err |-> "binascii.Error"]
       ELSE [ok |-> TRUE, err |-> ""]
generate_totp_code(secret, lib) ==
  IF ~Truthy(secret) \/ ~lib
  THEN [ok |-> FALSE, err |-> "2FA secret not configured or pyotp not installed"]
  ELSE IF ~ValidBase32(secret)
       THEN [ok |-> FALSE, err |-> "binascii.Error"]
       ELSE [ok |-> TRUE, err |-> ""]

\* login: if self.credentials['two_factor_secret'] and pyotp
UseTotpIgnoresSecret(secret, lib) == lib
UseTotp(secret, lib) == Truthy(secret) /\ lib

\* ------------------------------------------------------------------ URLs
DashboardUrl == <<"app.smokeball.com.au", "#", "dashboard">>
PostLoginUrls == {
  DashboardUrl,
  <<"app.smokeball.com.au", "#", "home">>,
  <<"app.smokeball.com.au", "login">>,
  <<"app.smokeball.com.au", "two-factor">> }
\* 'dashboard' not in current_url
Contains(tok, u) == \E i \in 1..Len(u) : u[i] = tok
TwoFactorRequiredInverted(u) == Contains("dashboard", u)
TwoFactorRequired(u) == ~Contains("dashboard", u)

\* ----------------------------------------------------------- screenshots
\* take_screenshot(name) for each name, in order.  page.screenshot may raise
\* (it always does when self.page is None); take_screenshot catches that and
\* returns None, and no caller reads its return value: written or not, the
\* caller continues the same way, so only the call is recorded.
TakeScreenshots(names) == shots' = shots \o names

\* an awaited operation of `stage` raises an Exception, which the enclosing
\* "except Exception" at `handler` catches
Raise(stage, msg, handler) ==
  /\ exc' = Error(msg)
  /\ failure' = [stage |-> stage, cause |-> msg]
  /\ pc' = handler

\* ------------------------------------------------------------------- run
\* run's finally block: if not self.test_mode: await asyncio.sleep(5)
FinallyPc == IF test_mode THEN "cleanup" ELSE "pre_close_wait"

\* the state when run is entered: the module was imported with or without
\* pyotp, main parsed the flags and constructed the automation object
InitWith(e, flags, lib) ==
  /\ pc = "launch"
  /\ env = e
  /\ cli = flags
  /\ test_mode = EffectiveTestMode(cli)
  /\ credentials = LoadCredentials(env)
  /\ pyotp = lib
  /\ browser = "none"
  /\ page = FALSE
  /\ url = <<>>
  /\ shots = <<>>
  /\ exc = NoExc
  /\ failure = NoFailure
  /\ result = NoResult
  /\ totpCalls = 0
  /\ prompted = FALSE
  /\ code = [src |-> "none"]
  /\ current_url = <<>>
  /\ twoFaEntered = FALSE
  /\ navigated = FALSE
  /\ idle_timeout = FALSE
  /\ menuOpen = FALSE
  /\ strat = 0
  /\ tried = <<>>
  /\ items = 0
  /\ idx = 0
  /\ opened = 0
  /\ fields = <<>>
  /\ commitClicked = FALSE
  /\ closeCalls = 0
  /\ interrupts = 0
  /\ exitCode = <<>>
  /\ final_output = "none"

\* pyotp.TOTP.interval, the width of a code's validity window in seconds
Interval == 30
\* the windows the clock can be in, and the numeric values of the six-digit
\* codes considered
Windows == 0..(MaxClock \div Interval)
CodeValues == {0, 17, 123456}

\* the test script is not running
ScriptIdle ==
  /\ now = 0
  /\ otp = [w \in Windows |-> 0]
  /\ tpc = "not_run"
  /\ loop_i = 0
  /\ tcode = <<>>
  /\ remaining_time = <<>>
  /\ test1_result = <<>>
  /\ test2_result = <<>>
  /\ gen = <<>>
  /\ texit = <<>>

\* a run with both login variables set and --test-mode not given
Init ==
  /\ \E e \in ConfiguredEnvs, flags \in [test_mode : {FALSE}, submit : BOOLEAN],
        lib \in BOOLEAN : InitWith(e, flags, lib)
  /\ ScriptIdle

\* the same run with the 2FA secret unset, malformed or valid, and pyotp
\* installed
LiveSecrets == {NoSecret, SetTo(<<"1">>), SetTo(<<"a", "a">>)}
InitLive ==
  /\ \E e \in ConfiguredEnvs, flags \in [test_mode : {FALSE}, submit : BOOLEAN] :
        /\ e.SMOKEBALL_2FA_SECRET \in LiveSecrets
        /\ InitWith(e, flags, TRUE)
  /\ ScriptIdle

\* startup: the login variables set or not, every combination of the flags
InitStartup ==
  /\ \E e \in StartupEnvs, flags \in [test_mode : BOOLEAN, submit : BOOLEAN] :
        InitWith(e, flags, TRUE)
  /\ ScriptIdle

\* initialize: chromium.launch
Launch ==
  /\ pc = "launch"
  /\ \/ /\ browser' = "open"
        /\ pc' = "new_page"
        /\ UNCHANGED <<exc, failure>>
     \/ /\ Raise("initialize", <<"launch failed">>, "h_run")
        /\ UNCHANGED browser
  /\ UNCHANGED <<config, page, url, shots, result, twofa,
                 nav, chain, form, closing, interrupts>>

\* initialize: browser.new_page and the page settings
NewPage ==
  /\ pc = "new_page"
  /\ \/ /\ page' = TRUE
        /\ pc' = "login_goto"
        /\ UNCHANGED <<exc, failure>>
     \/ /\ Raise("initialize", <<"new_page failed">>, "h_run")
        /\ UNCHANGED page
  /\ UNCHANGED <<config, browser, url, shots, result, twofa,
                 nav, chain, form, closing, interrupts>>

\* ----------------------------------------------------------------- login
\* raise Exception(f'2FA failed: {e}')
TwoFactorFailedDropsCause(e) == <<"2FA failed">>
TwoFactorFailed(e) == <<"2FA failed">> \o e
\* raise Exception(f'Login failed: {e}')
LoginFailed(e) == <<"Login failed">> \o e

\* page.goto('https://app.smokeball.com.au'), take_screenshot('login-page')
LoginGoto ==
  /\ pc = "login_goto"
  /\ \/ /\ url' = <<"app.smokeball.com.au", "login">>
        /\ TakeScreenshots(<<"login-page">>)
        /\ pc' = "email_wait"
        /\ UNCHANGED <<exc, failure>>
     \/ /\ Raise("login", <<"goto failed">>, "h_login")
        /\ UNCHANGED <<url, shots>>
  /\ UNCHANGED <<config, browser, page, result, twofa, nav, chain, form,
                 closing, interrupts>>

\* wait_for_selector('input[type="email"]') under a bare except
EmailWait ==
  /\ pc = "email_wait"
  /\ \/ pc' = "fill_user"
     \/ pc' = "email_fallback"
  /\ UNCHANGED <<config, browser, page, url, shots, exc, failure, result,
                 twofa, nav, chain, form, closing, interrupts>>

\* the fallback: wait_for_selector('textbox'), then locator('textbox').all()
\* is not awaited, so email_inputs is a coroutine object: truthy, and
\* email_inputs[0] raises TypeError.  The fallback never yields a field.
EmailFallback ==
  /\ pc = "email_fallback"
  /\ \/ Raise("login", <<"textbox wait timed out">>, "h_login")
     \/ Raise("login", <<"TypeError: 'coroutine' object is not subscriptable">>,
              "h_login")
  /\ UNCHANGED <<config, browser, page, url, shots, result, twofa,
                 nav, chain, form, closing, interrupts>>

\* email_input.fill(username)
FillUser ==
  /\ pc = "fill_user"
  /\ \/ /\ pc' = "fill_pass"
        /\ UNCHANGED <<exc, failure>>
     \/ /\ Raise("login", <<"fill username failed">>, "h_login")
  /\ UNCHANGED <<config, browser, page, url, shots, result, twofa,
                 nav, chain, form, closing, interrupts>>

\* password_input.fill(password); building the locator raises nothing
FillPass ==
  /\ pc = "fill_pass"
  /\ \/ /\ pc' = "click_login"
        /\ UNCHANGED <<exc, failure>>
     \/ /\ Raise("login", <<"fill password failed">>, "h_login")
  /\ UNCHANGED <<config, browser, page, url, shots, result, twofa,
                 nav, chain, form, closing, interrupts>>

\* get_by_role('button', name='Log in').first.click() under a bare except;
\* the click submits the credentials and the site answers with some page
ClickLogin ==
  /\ pc = "click_login"
  /\ \/ /\ \E u \in PostLoginUrls : url' = u
        /\ pc' = "check_url"
     \/ /\ pc' = "click_login_fallback"
        /\ UNCHANGED url
  /\ UNCHANGED <<config, browser, page, shots, exc, failure, result, twofa,
                 nav, chain, form, closing, interrupts>>

\* locator('button').filter(has_text='log').first.click()
ClickLoginFallback ==
  /\ pc = "click_login_fallback"
  /\ \/ /\ \E u \in PostLoginUrls : url' = u
        /\ pc' = "check_url"
        /\ UNCHANGED <<exc, failure>>
     \/ /\ Raise("login", <<"login button not found">>, "h_login")
        /\ UNCHANGED url
  /\ UNCHANGED <<config, browser, page, shots, result, twofa,
                 nav, chain, form, closing, interrupts>>

\* asyncio.sleep(3); current_url = self.page.url;
\* if 'dashboard' not in current_url: the two-factor block, else logged in
CheckUrl ==
  /\ pc = "check_url"
  /\ current_url' = url
  /\ IF TwoFactorRequired(current_url')
     THEN /\ twoFaEntered' = TRUE
          /\ pc' = "wait_2fa"
     ELSE /\ pc' = "nav_goto"
          /\ UNCHANGED twoFaEntered
  /\ UNCHANGED <<config, browser, page, url, shots, exc, failure, result,
                 totpCalls, prompted, code, nav, chain, form, closing,
                 interrupts>>

\* wait_for_selector('input[placeholder="Two-Factor Code"], ...', 15000)
Wait2FA ==
  /\ pc = "wait_2fa"
  /\ \/ /\ pc' = "get_code"
        /\ UNCHANGED <<exc, failure>>
     \/ /\ Raise("2fa", <<"2FA field not found">>, "h_2fa")
  /\ UNCHANGED <<config, browser, page, url, shots, result, twofa,
                 nav, chain, form, closing, interrupts>>

\* if secret and pyotp: totp_code = self.generate_totp_code()
\* else: print the manual notice and call input('Enter 2FA code: ')
GetCode ==
  /\ pc = "get_code"
  /\ IF UseTotp(credentials.two_factor_secret, pyotp)
     THEN /\ totpCalls' = totpCalls + 1
          /\ LET g == generate_totp_code(credentials.two_factor_secret, pyotp)
             IN IF g.ok
                THEN /\ code' = [src |-> "totp"]
                     /\ pc' = "fill_code"
                     /\ UNCHANGED <<exc, failure>>
                ELSE /\ Raise("2fa", <<g.err>>, "h_2fa")
                     /\ UNCHANGED code
          /\ UNCHANGED prompted
     ELSE /\ prompted' = TRUE
          /\ pc' = "prompt"
          /\ UNCHANGED <<totpCalls, code, exc, failure>>
  /\ UNCHANGED <<config, current_url, browser, page, url, shots, result,
                 twoFaEntered, nav, chain, form, closing, interrupts>>

\* input('Enter 2FA code: ') returns what the operator typed; it has no
\* timeout, and raises EOFError when standard input is closed
ManualEntry ==
  /\ pc = "prompt"
  /\ \/ /\ code' = [src |-> "manual"]
        /\ pc' = "fill_code"
        /\ UNCHANGED <<exc, failure>>
     \/ /\ Raise("2fa", <<"EOFError">>, "h_2fa")
        /\ UNCHANGED code
  /\ UNCHANGED <<config, current_url, browser, page, url, shots, result,
                 totpCalls, prompted, twoFaEntered, nav, chain, form,
                 closing, interrupts>>

\* two_factor_input.fill(totp_code)
FillCode ==
  /\ pc = "fill_code"
  /\ \/ /\ pc' = "verify"
        /\ UNCHANGED <<exc, failure>>
     \/ /\ Raise("2fa", <<"fill 2FA code failed">>, "h_2fa")
  /\ UNCHANGED <<config, browser, page, url, shots, result, twofa,
                 nav, chain, form, closing, interrupts>>

\* get_by_role('button', name='Verify').click() under a bare except
Verify ==
  /\ pc = "verify"
  /\ \/ pc' = "wait_dashboard"
     \/ pc' = "press_enter"
  /\ UNCHANGED <<config, browser, page, url, shots, exc, failure, result,
                 twofa, nav, chain, form, closing, interrupts>>

\* two_factor_input.press('Enter')
PressEnter ==
  /\ pc = "press_enter"
  /\ \/ /\ pc' = "wait_dashboard"
        /\ UNCHANGED <<exc, failure>>
     \/ /\ Raise("2fa", <<"press Enter failed">>, "h_2fa")
  /\ UNCHANGED <<config, browser, page, url, shots, result, twofa,
                 nav, chain, form, closing, interrupts>>

\* wait_for_url('**/dashboard', 45000): times out when the code is rejected
WaitDashboardTimeoutIgnored ==
  /\ pc = "wait_dashboard"
  /\ \/ /\ url' = DashboardUrl
        /\ pc' = "nav_goto"
        /\ UNCHANGED <<exc, failure>>
     \/ /\ pc' = "nav_goto"
        /\ UNCHANGED <<url, exc, failure>>
  /\ UNCHANGED <<config, browser, page, shots, result, twofa,
                 nav, chain, form, closing, interrupts>>
WaitDashboard ==
  /\ pc = "wait_dashboard"
  /\ \/ /\ url' = DashboardUrl
        /\ pc' = "nav_goto"
        /\ UNCHANGED <<exc, failure>>
     \/ /\ Raise("2fa", <<"dashboard not reached">>, "h_2fa")
        /\ UNCHANGED url
  /\ UNCHANGED <<config, browser, page, shots, result, twofa,
                 nav, chain, form, closing, interrupts>>

\* except Exception as e (two-factor block):
\*   take_screenshot('2fa-error'); raise Exception(f'2FA failed: {e}')
Handle2FA ==
  /\ pc = "h_2fa"
  /\ TakeScreenshots(<<"2fa-error">>)
  /\ exc' = Error(TwoFactorFailed(exc.msg))
  /\ pc' = "h_login"
  /\ UNCHANGED <<config, failure, browser, page, url, result, twofa, nav, chain,
                 form, closing, interrupts>>

\* except Exception as e (login):
\*   take_screenshot('login-error'); raise Exception(f'Login failed: {e}')
HandleLoginRetries ==
  /\ pc = "h_login"
  /\ TakeScreenshots(<<"login-error">>)
  /\ exc' = NoExc
  /\ pc' = "login_goto"
  /\ UNCHANGED <<config, failure, browser, page, url, result, twofa, nav, chain,
                 form, closing, interrupts>>
HandleLogin ==
  /\ pc = "h_login"
  /\ TakeScreenshots(<<"login-error">>)
  /\ exc' = Error(LoginFailed(exc.msg))
  /\ pc' = "h_run"
  /\ UNCHANGED <<config, failure, browser, page, url, result, twofa, nav, chain,
                 form, closing, interrupts>>

\* ------------------------------------------- navigate_to_matter_transactions
\* page.goto(transactions_url)
NavGoto ==
  /\ pc = "nav_goto"
  /\ navigated' = TRUE
  /\ \/ /\ url' = <<"app.smokeball.com.au", "#", "billing", "view-matter",
                    "transactions", "trust">>
        /\ pc' = "nav_idle"
        /\ UNCHANGED <<exc, failure>>
     \/ /\ Raise("navigate", <<"goto transactions failed">>, "h_run")
        /\ UNCHANGED url
  /\ UNCHANGED <<config, browser, page, shots, result, twofa, idle_timeout,
                 chain, form, closing, interrupts>>

\* what follows a failed wait for 'networkidle': the bare except prints
\* 'Network idle timeout, but continuing...' and the function goes on
AfterIdleTimeoutRaises == Raise("navigate", <<"network idle timeout">>, "h_run")
AfterIdleTimeout ==
  /\ pc' = "nav_content"
  /\ UNCHANGED <<exc, failure>>

\* asyncio.sleep(8); wait_for_load_state('networkidle') under a bare except
NavIdle ==
  /\ pc = "nav_idle"
  /\ \/ /\ pc' = "nav_content"
        /\ UNCHANGED <<exc, failure, idle_timeout>>
     \/ /\ idle_timeout' = TRUE
        /\ AfterIdleTimeout
  /\ UNCHANGED <<config, browser, page, url, shots, result,
                 twofa, navigated, chain, form, closing, interrupts>>

\* wait_for_selector('button, table, [role="button"]'): on failure
\* take_screenshot('transactions-page-error') and continue; then
\* take_screenshot('transactions-page-loaded')
NavContent ==
  /\ pc = "nav_content"
  /\ \/ TakeScreenshots(<<"transactions-page-loaded">>)
     \/ TakeScreenshots(<<"transactions-page-error", "transactions-page-loaded">>)
  /\ pc' = "fill_begin"
  /\ UNCHANGED <<config, browser, page, url, exc, failure, result, twofa, nav,
                 chain, form, closing, interrupts>>

\* ----------------------------------------------------- fill_receipt_form
NumStrategies == 7
\* strategies 1 (Create New menu), 2, 3, 4, 6, 7 start with is_visible;
\* strategy 5 starts with locator('button, [role="button"]').all()
EntryPc(k) == IF k = 5 THEN "s_all" ELSE "s_visible"

\* control enters the try block of strategy k
EnterStrategySkipsExactMatch(k) ==
  /\ strat' = IF k = 2 THEN 3 ELSE k
  /\ tried' = Append(tried, IF k = 2 THEN 3 ELSE k)
  /\ pc' = EntryPc(IF k = 2 THEN 3 ELSE k)
EnterStrategy(k) ==
  /\ strat' = k
  /\ tried' = Append(tried, k)
  /\ pc' = EntryPc(k)

\* the current strategy ended without a click on the deposit control: fall to
\* the next try block, or past strategy 7 to the not-found exit
NextStrategyGivesUpEarly ==
  IF strat < NumStrategies - 1
  THEN EnterStrategy(strat + 1)
  ELSE /\ pc' = "not_found"
       /\ UNCHANGED <<strat, tried>>
NextStrategy ==
  IF strat < NumStrategies
  THEN EnterStrategy(strat + 1)
  ELSE /\ pc' = "not_found"
       /\ UNCHANGED <<strat, tried>>

\* what fill_receipt_form still does after the click that opens the deposit
\* form: sleep(2), take_screenshot('deposit-dialog-opened'), return.  Every
\* strategy returns here and the fall-through raises, so the field filling
\* and the commit click after the raise are never executed.
AfterDepositOpenedCommits(tm) == [fields |-> <<>>, commit |-> TRUE]
AfterDepositOpened(tm) == [fields |-> <<>>, commit |-> FALSE]

\* a click on the deposit control succeeded in the current strategy
DepositOpened ==
  /\ opened' = strat
  /\ TakeScreenshots(<<"deposit-dialog-opened">>)
  /\ fields' = fields \o AfterDepositOpened(test_mode).fields
  /\ commitClicked' = (commitClicked \/ AfterDepositOpened(test_mode).commit)
  /\ pc' = "run_return"

\* take_screenshot('before-fill-form'), then strategy 1
FillBegin ==
  /\ pc = "fill_begin"
  /\ TakeScreenshots(<<"before-fill-form">>)
  /\ EnterStrategy(1)
  /\ UNCHANGED <<config, browser, page, url, exc, failure, result, twofa, nav,
                 menuOpen, items, idx, opened, form, closing, interrupts>>

\* if await <locator>.is_visible(timeout=...): a raise is caught by the
\* strategy's except Exception, FALSE falls out of the try block
StrategyVisible ==
  /\ pc = "s_visible"
  /\ \/ /\ pc' = IF strat = 1 THEN "s1_click" ELSE "s_click"
        /\ UNCHANGED <<strat, tried>>
     \/ NextStrategy
  /\ UNCHANGED <<config, browser, page, url, shots, exc, failure, result,
                 twofa, nav, menuOpen, items, idx, opened, form, closing,
                 interrupts>>

\* strategy 1: create_new_button.click(), sleep(2),
\* take_screenshot('create-new-menu-opened')
CreateNewClick ==
  /\ pc = "s1_click"
  /\ \/ /\ menuOpen' = TRUE
        /\ TakeScreenshots(<<"create-new-menu-opened">>)
        /\ pc' = "s1_menu_visible"
        /\ UNCHANGED <<strat, tried>>
     \/ /\ NextStrategy
        /\ UNCHANGED <<menuOpen, shots>>
  /\ UNCHANGED <<config, browser, page, url, exc, failure, result, twofa, nav,
                 items, idx, opened, form, closing, interrupts>>

\* strategy 1, inner try: get_by_role('menuitem', 'Deposit Funds').is_visible:
\* TRUE goes on to the click, FALSE leaves both try blocks, a raise is
\* caught by the bare except, which enumerates the menu items
MenuItemVisible ==
  /\ pc = "s1_menu_visible"
  /\ \/ /\ pc' = "s1_menu_click"
        /\ UNCHANGED <<strat, tried>>
     \/ NextStrategy
     \/ /\ pc' = "s_all"
        /\ UNCHANGED <<strat, tried>>
  /\ UNCHANGED <<config, browser, page, url, shots, exc, failure, result,
                 twofa, nav, menuOpen, items, idx, opened, form, closing,
                 interrupts>>

\* strategy 1, inner try: deposit_button.click()
MenuItemClick ==
  /\ pc = "s1_menu_click"
  /\ \/ /\ DepositOpened
        /\ UNCHANGED <<strat, tried>>
     \/ /\ pc' = "s_all"
        /\ UNCHANGED <<strat, tried, opened, shots, form>>
  /\ UNCHANGED <<config, browser, page, url, exc, failure, result, twofa, nav,
                 menuOpen, items, idx, closing, interrupts>>

\* strategies 2, 3, 4, 6, 7: deposit_button.click()
DirectClick ==
  /\ pc = "s_click"
  /\ \/ /\ DepositOpened
        /\ UNCHANGED <<strat, tried>>
     \/ /\ NextStrategy
        /\ UNCHANGED <<opened, shots, form>>
  /\ UNCHANGED <<config, browser, page, url, exc, failure, result, twofa, nav,
                 menuOpen, items, idx, closing, interrupts>>

\* await self.page.locator(...).all(): the menu items (strategy 1) or the
\* buttons (strategy 5); a raise is caught by the strategy's except Exception
AllItems ==
  /\ pc = "s_all"
  /\ \/ /\ \E n \in 0..MaxItems : items' = n
        /\ idx' = 1
        /\ pc' = "s_item"
        /\ UNCHANGED <<strat, tried>>
     \/ /\ NextStrategy
        /\ UNCHANGED <<items, idx>>
  /\ UNCHANGED <<config, browser, page, url, shots, exc, failure, result,
                 twofa, nav, menuOpen, opened, form, closing, interrupts>>

\* text_content() of an element: None, or its words
ItemTexts == {<<>>, <<"Deposit", "Funds">>, <<"DEPOSIT">>, <<"Withdraw", "Funds">>}
Lower(w) ==
  CASE w \in {"Deposit", "DEPOSIT"} -> "deposit"
    [] w = "Funds" -> "funds"
    [] w = "Withdraw" -> "withdraw"
    [] OTHER -> w
\* text and 'deposit' in text.lower()
HasDeposit(text) == text # <<>> /\ \E i \in 1..Len(text) : Lower(text[i]) = "deposit"

\* one turn of "for item in ...": text_content(), the test for 'deposit',
\* click(); the bare except turns every raise into continue
ItemScan ==
  /\ pc = "s_item"
  /\ IF idx > items
     THEN /\ NextStrategy
          /\ UNCHANGED <<idx, opened, shots, form>>
     ELSE \/ \E text \in ItemTexts :
               IF HasDeposit(text)
               THEN /\ DepositOpened
                    /\ UNCHANGED <<idx, strat, tried>>
               ELSE /\ idx' = idx + 1
                    /\ UNCHANGED <<pc, strat, tried, opened, shots, form>>
          \/ /\ idx' = idx + 1
             /\ UNCHANGED <<pc, strat, tried, opened, shots, form>>
  /\ UNCHANGED <<config, browser, page, url, exc, failure, result, twofa, nav,
                 menuOpen, items, closing, interrupts>>

\* the strategies as the comments of fill_receipt_form name them
StrategyName(k) ==
  CASE k = 1 -> "Create New menu"
    [] k = 2 -> "exact role and name match"
    [] k = 3 -> "case-insensitive match"
    [] k = 4 -> "button containing Deposit text"
    [] k = 5 -> "all buttons filtered by text content"
    [] k = 6 -> "aria-label or title"
    [] k = 7 -> "data attributes or class names"

\* 'Could not find "Deposit Funds" button after trying all strategies'
NotFoundMessage ==
  <<"Could not find", "Deposit Funds", "button", "after trying all strategies">>

\* take_screenshot('deposit-button-not-found'); raise Exception(...)
NotFound ==
  /\ pc = "not_found"
  /\ TakeScreenshots(<<"deposit-button-not-found">>)
  /\ Raise("open_form", NotFoundMessage, "h_run")
  /\ UNCHANGED <<config, browser, page, url, result, twofa, nav, chain,
                 form, closing, interrupts>>

\* ------------------------------------------------------------------- run
SuccessMessage(tm) ==
  IF tm THEN "Receipt form filled successfully" ELSE "Receipt created successfully"
FailureMessage(tm) ==
  IF tm THEN "Failed to fill receipt form" ELSE "Failed to create receipt"

\* fill_receipt_form returned: return {'success': True, 'message': ...}
RunReturn ==
  /\ pc = "run_return"
  /\ result' = [success |-> TRUE, message |-> SuccessMessage(test_mode)]
  /\ pc' = FinallyPc
  /\ UNCHANGED <<config, browser, page, url, shots, exc, failure, twofa,
                 nav, chain, form, closing, interrupts>>

\* the screenshots of run's except block, one name for every stage
RunErrorScreenshotsNone == <<>>
RunErrorScreenshots == <<"automation-error">>

\* except Exception as e: take_screenshot('automation-error');
\* return {'success': False, 'error': str(e), 'message': ...}
HandleRun ==
  /\ pc = "h_run"
  /\ TakeScreenshots(RunErrorScreenshots)
  /\ result' = [success |-> FALSE, error |-> exc.msg,
                message |-> FailureMessage(test_mode)]
  /\ exc' = NoExc
  /\ pc' = FinallyPc
  /\ UNCHANGED <<config, failure, browser, page, url, twofa, nav, chain, form,
                 closing, interrupts>>

\* finally: if not self.test_mode: await asyncio.sleep(5)
PreCloseWaitNeverEnds ==
  /\ pc = "pre_close_wait"
  /\ UNCHANGED vars
PreCloseWait ==
  /\ pc = "pre_close_wait"
  /\ pc' = "cleanup"
  /\ UNCHANGED <<config, browser, page, url, shots, exc, failure, result,
                 twofa, nav, chain, form, closing, interrupts>>

\* cleanup: if self.browser: await self.browser.close().  close() may raise
\* (the connection to the browser is gone): the exception leaves the finally
\* block of run, replaces the pending return value, and whether the browser
\* process is gone is not known
CleanupCloses(b) == b # "none"
Cleanup ==
  /\ pc = "cleanup"
  /\ \/ /\ IF CleanupCloses(browser)
           THEN /\ closeCalls' = closeCalls + 1
                /\ browser' = "closed"
           ELSE UNCHANGED <<closeCalls, browser>>
        /\ UNCHANGED <<exc, result>>
     \/ /\ CleanupCloses(browser)
        /\ closeCalls' = closeCalls + 1
        /\ browser' \in {"open", "closed"}
        /\ exc' = Error(<<"close failed">>)
        /\ result' = NoResult
  /\ pc' = "main"
  /\ UNCHANGED <<config, page, url, shots, failure, twofa,
                 nav, chain, form, exitCode, final_output, interrupts>>

\* ------------------------------------------------------------------ main
\* what the process does once asyncio.run(main()) is over: [status, output]
\*   run returned:      print('Final Result:', result),
\*                      sys.exit(0 if result['success'] else 1)
\*   KeyboardInterrupt: print('Interrupted by user'), sys.exit(1)
\*   Exception:         print('Unexpected error: ...'), traceback, sys.exit(1)
MainOutcomeSilentOnFailure(e, r) ==
  CASE e.kind = "Interrupt" ->
         [status |-> 1, output |-> "Interrupted by user"]
    [] e.kind = "Exception" ->
         [status |-> 1, output |-> "Unexpected error"]
    [] OTHER ->
         [status |-> IF r.success THEN 0 ELSE 1,
          output |-> IF r.success THEN "Final Result" ELSE "none"]
MainOutcome(e, r) ==
  CASE e.kind = "Interrupt" ->
         [status |-> 1, output |-> "Interrupted by user"]
    [] e.kind = "Exception" ->
         [status |-> 1, output |-> "Unexpected error"]
    [] OTHER ->
         [status |-> IF r.success THEN 0 ELSE 1, output |-> "Final Result"]

MainExit ==
  /\ pc = "main"
  /\ exitCode' = <<MainOutcome(exc, result).status>>
  /\ final_output' = MainOutcome(exc, result).output
  /\ pc' = "done"
  /\ UNCHANGED <<config, browser, page, url, shots, exc, failure, result,
                 twofa, nav, chain, form, closeCalls, interrupts>>

\* ----------------------------------------------------------- interruption
\* A user interruption reaches the coroutine as a BaseException
\* (KeyboardInterrupt or CancelledError) raised by the operation it is
\* waiting in.  "except Exception" does not catch it; a bare "except:" does.
SwallowedAt ==
  [p \in {"email_wait", "click_login", "verify", "nav_idle",
          "s1_menu_visible", "s1_menu_click", "s_item"} |->
     CASE p = "email_wait" -> "email_fallback"
       [] p = "click_login" -> "click_login_fallback"
       [] p = "verify" -> "press_enter"
       [] p = "nav_idle" -> "nav_content"
       [] p = "s1_menu_visible" -> "s_all"
       [] p = "s1_menu_click" -> "s_all"
       [] p = "s_item" -> "s_item"]

\* positions inside run's try block whose pending operation is not under a
\* bare except
PropagatingPcs ==
  {"launch", "new_page", "login_goto", "email_fallback", "fill_user",
   "fill_pass", "click_login_fallback", "check_url", "wait_2fa", "prompt",
   "fill_code", "press_enter", "wait_dashboard", "h_2fa", "h_login",
   "nav_goto", "nav_content", "fill_begin", "s_visible", "s1_click",
   "s_click", "s_all", "not_found", "h_run"}

\* caught by a bare except: the fallback (or the next loop turn) runs
InterruptSwallowed ==
  /\ interrupts < MaxInterrupts
  /\ pc \in DOMAIN SwallowedAt
  /\ pc = "s_item" => idx <= items
  /\ interrupts' = interrupts + 1
  /\ pc' = SwallowedAt[pc]
  /\ idx' = IF pc = "s_item" THEN idx + 1 ELSE idx
  /\ idle_timeout' = (idle_timeout \/ pc = "nav_idle")
  /\ UNCHANGED <<config, browser, page, url, shots, exc, failure, result,
                 twofa, navigated, menuOpen, strat, tried, items, opened, form,
                 closing>>

\* inside run's try block: past "except Exception" to the finally block
InterruptInTry ==
  /\ interrupts < MaxInterrupts
  /\ pc \in PropagatingPcs
  /\ interrupts' = interrupts + 1
  /\ exc' = Interrupted
  /\ pc' = FinallyPc
  /\ UNCHANGED <<config, failure, browser, page, url, shots, result, twofa,
                 nav, chain, form, closing>>

\* inside the finally block, during asyncio.sleep(5): the exception leaves
\* run before self.cleanup() is reached, and replaces a pending return value
InterruptInPreCloseWait ==
  /\ interrupts < MaxInterrupts
  /\ pc = "pre_close_wait"
  /\ interrupts' = interrupts + 1
  /\ exc' = Interrupted
  /\ result' = NoResult
  /\ pc' = "main"
  /\ UNCHANGED <<config, failure, browser, page, url, shots, twofa,
                 nav, chain, form, closing>>

\* inside the finally block, during browser.close(): close was invoked
InterruptInClose ==
  /\ interrupts < MaxInterrupts
  /\ pc = "cleanup"
  /\ CleanupCloses(browser)
  /\ interrupts' = interrupts + 1
  /\ closeCalls' = closeCalls + 1
  /\ browser' = "closed"
  /\ exc' = Interrupted
  /\ result' = NoResult
  /\ pc' = "main"
  /\ UNCHANGED <<config, failure, page, url, shots, twofa, nav, chain,
                 form, exitCode, final_output>>

Interrupt ==
  \/ InterruptSwallowed
  \/ InterruptInTry
  \/ InterruptInPreCloseWait
  \/ InterruptInClose

\* the steps that end by themselves: every awaited browser operation has a
\* timeout and every sleep a duration
Bounded ==
  \/ Launch \/ NewPage
  \/ LoginGoto \/ EmailWait \/ EmailFallback \/ FillUser \/ FillPass
  \/ ClickLogin \/ ClickLoginFallback \/ CheckUrl
  \/ Wait2FA \/ GetCode \/ FillCode \/ Verify \/ PressEnter
  \/ WaitDashboard \/ Handle2FA \/ HandleLogin
  \/ NavGoto \/ NavIdle \/ NavContent
  \/ FillBegin \/ StrategyVisible \/ CreateNewClick \/ MenuItemVisible
  \/ MenuItemClick \/ DirectClick \/ AllItems \/ ItemScan \/ NotFound
  \/ RunReturn \/ HandleRun \/ PreCloseWait \/ Cleanup \/ MainExit

Next ==
  \/ Bounded
  \/ ManualEntry
  \/ Interrupt

Spec == Init /\ [][Next]_vars
\* the same program when every step that ends by itself is eventually taken:
\* one thread of control, whose pending operation the event loop completes.
\* The operator's answer to input() and the interruptions are not forced.
SpecLive == InitLive /\ [][Next]_vars /\ WF_vars(Bounded)
\* the same program, started from InitStartup
SpecStartup == InitStartup /\ [][Next]_vars

\* ------------------------------------------------ test-2fa-automation.py
\* the constructor call of the test script: SmokeBallReceiptAutomation(
\* test_mode=True), which is what no flag on the command line gives too
NoFlags == [test_mode |-> FALSE, submit |-> FALSE]
\* the seconds at which the script may start: the start of a window and the
\* two seconds before the next one
StartTimes == {0, Interval - 2, Interval - 1}

\* the script (or another caller of generate_totp_code) is about to start:
\* any secret, pyotp installed or not, the codes pyotp computes arbitrary
InitTest ==
  /\ \E e \in ConfiguredEnvs, lib \in BOOLEAN : InitWith(e, NoFlags, lib)
  /\ now \in StartTimes
  /\ otp \in [Windows -> CodeValues]
  /\ tpc = "start"
  /\ loop_i = 0
  /\ tcode = <<>>
  /\ remaining_time = <<>>
  /\ test1_result = <<>>
  /\ test2_result = <<>>
  /\ gen = <<>>
  /\ texit = <<>>

\* the window second t lies in
Window(t) == t \div Interval
\* pyotp.TOTP(secret).now() at second t: the code's numeric value
TotpNow(t) == otp[Window(t)]
\* line 61: totp.interval - (int(totp.now()) % totp.interval), where
\* totp.now() is the code, a string of digits
RemainingTime(codeValue) == Interval - (codeValue % Interval)
\* what a call of generate_totp_code leaves its caller with
CallOutcome(g) ==
  [ok |-> g.ok, err |-> g.err, code |-> IF g.ok THEN <<TotpNow(now)>> ELSE <<>>]

\* a second passes while the script runs
Tick ==
  /\ tpc \notin {"not_run", "exited", "called"}
  /\ now < MaxClock
  /\ now' = now + 1
  /\ UNCHANGED <<automation, otp, tpc, loop_i, tcode, remaining_time,
                 test1_result, test2_result, gen, texit>>

\* lines 19-23: import pyotp, or print the error and sys.exit(1)
TestImport ==
  /\ tpc = "start"
  /\ IF pyotp
     THEN tpc' = "t1_check" /\ UNCHANGED texit
     ELSE tpc' = "exited" /\ texit' = <<1>>
  /\ UNCHANGED <<automation, now, otp, loop_i, tcode, remaining_time,
                 test1_result, test2_result, gen>>

\* test_2fa_generation: if not two_factor_secret: return False
Test1Check ==
  /\ tpc = "t1_check"
  /\ IF Truthy(env.SMOKEBALL_2FA_SECRET)
     THEN tpc' = "t1_generate" /\ UNCHANGED test1_result
     ELSE tpc' = "t2_import" /\ test1_result' = <<FALSE>>
  /\ UNCHANGED <<automation, now, otp, loop_i, tcode, remaining_time,
                 test2_result, gen, texit>>

\* totp = pyotp.TOTP(two_factor_secret); code = totp.now(); an exception is
\* caught by line 75: return False
Test1Generate ==
  /\ tpc = "t1_generate"
  /\ IF ValidBase32(env.SMOKEBALL_2FA_SECRET)
     THEN /\ tcode' = <<TotpNow(now)>>
          /\ tpc' = "t1_code"
          /\ UNCHANGED test1_result
     ELSE /\ test1_result' = <<FALSE>>
          /\ tpc' = "t2_import"
          /\ UNCHANGED tcode
  /\ UNCHANGED <<automation, now, otp, loop_i, remaining_time, test2_result,
                 gen, texit>>

\* line 60: code = totp.now()
Test1LoopCode ==
  /\ tpc = "t1_code"
  /\ tcode' = <<TotpNow(now)>>
  /\ tpc' = "t1_remaining"
  /\ UNCHANGED <<automation, now, otp, loop_i, remaining_time, test1_result,
                 test2_result, gen, texit>>

\* lines 61-63: remaining_time = ...; print; then sleep, or leave the loop
\* and return True
Test1LoopRemaining ==
  /\ tpc = "t1_remaining"
  /\ remaining_time' = <<[value |-> RemainingTime(TotpNow(now)), at |-> now]>>
  /\ IF loop_i < 2
     THEN tpc' = "t1_sleep" /\ UNCHANGED test1_result
     ELSE tpc' = "t2_import" /\ test1_result' = <<TRUE>>
  /\ UNCHANGED <<automation, now, otp, loop_i, tcode, test2_result, gen,
                 texit>>

\* time.sleep(1): at least a second passes; next iteration
Test1Sleep ==
  /\ tpc = "t1_sleep"
  /\ now < MaxClock
  /\ \E t \in (now + 1)..MaxClock : now' = t
  /\ loop_i' = loop_i + 1
  /\ tpc' = "t1_code"
  /\ UNCHANGED <<automation, otp, tcode, remaining_time, test1_result,
                 test2_result, gen, texit>>

\* test_automation_2fa_integration: import the automation module and
\* construct the object.  The module ends the process with sys.exit(1) when
\* playwright is missing (SystemExit passes both except clauses of the test)
Test2Import ==
  /\ tpc = "t2_import"
  /\ \/ /\ IF Truthy(credentials.two_factor_secret)
           THEN tpc' = "t2_call" /\ UNCHANGED test2_result
           ELSE tpc' = "summary" /\ test2_result' = <<FALSE>>
        /\ UNCHANGED texit
     \/ /\ tpc' = "exited"
        /\ texit' = <<1>>
        /\ UNCHANGED test2_result
  /\ UNCHANGED <<automation, now, otp, loop_i, tcode, remaining_time,
                 test1_result, gen>>

\* code = automation.generate_totp_code(): return True, or False when it
\* raises
Test2Call ==
  /\ tpc = "t2_call"
  /\ LET g == generate_totp_code(credentials.two_factor_secret, pyotp)
     IN /\ gen' = <<CallOutcome(g)>>
        /\ test2_result' = <<g.ok>>
  /\ tpc' = "summary"
  /\ UNCHANGED <<automation, now, otp, loop_i, tcode, remaining_time,
                 test1_result, texit>>

\* lines 143-148: sys.exit(0) if both tests passed, else sys.exit(1)
TestSummary ==
  /\ tpc = "summary"
  /\ texit' = <<IF test1_result[1] /\ test2_result[1] THEN 0 ELSE 1>>
  /\ tpc' = "exited"
  /\ UNCHANGED <<automation, now, otp, loop_i, tcode, remaining_time,
                 test1_result, test2_result, gen>>

\* generate_totp_code called on a constructed object by any other caller,
\* whatever the secret and whether or not pyotp was imported
DirectCall ==
  /\ tpc = "start"
  /\ gen' = <<CallOutcome(generate_totp_code(credentials.two_factor_secret, pyotp))>>
  /\ tpc' = "called"
  /\ UNCHANGED <<automation, now, otp, loop_i, tcode, remaining_time,
                 test1_result, test2_result, texit>>

NextTest ==
  \/ Tick \/ TestImport \/ Test1Check \/ Test1Generate \/ Test1LoopCode
  \/ Test1LoopRemaining \/ Test1Sleep \/ Test2Import \/ Test2Call
  \/ TestSummary \/ DirectCall

\* the test script, and direct callers of generate_totp_code
SpecTest == InitTest /\ [][NextTest]_vars
\* ================================================================ claims
\* run returned a result with success = True
Succeeded == "success" \in DOMAIN result /\ result.success
\* run returned a result with success = False
Failed == "success" \in DOMAIN result /\ ~result.success
\* positions inside the two-factor block of login
TwoFaPcs == {"wait_2fa", "get_code", "prompt", "fill_code", "verify",
             "press_enter", "wait_dashboard", "h_2fa"}
\* positions after a failed or interrupted login
AbortedPcs == {"h_2fa", "h_login", "h_run", "pre_close_wait", "cleanup",
               "main", "done"}
NoSecretConfigured == ~Truthy(credentials.two_factor_secret)
MalformedSecretConfigured ==
  Truthy(credentials.two_factor_secret) /\ ~ValidBase32(credentials.two_factor_secret)

\* C1: in test mode no run ever clicks the 'Process/Open Receipt' commit
\* control, whatever the outcome of login, navigation, form opening and
\* field filling: the Submitted state is never reached.
C1_TestModeNeverCommits == test_mode => ~commitClicked
\* a finished test-mode run that opened the deposit form and did not commit
C1_Witness ==
  test_mode /\ pc = "done" /\ opened # 0 /\ Succeeded /\ ~commitClicked

\* C2 (as claimed): with test mode off, a run whose login, navigation and
\* deposit-form opening all succeed has clicked the commit control and taken
\* the 'after-submit' screenshot by the time the browser is closed.
C2_CommitBeforeClose ==
  (~test_mode /\ opened # 0 /\ interrupts = 0 /\ browser = "closed")
    => (commitClicked /\ Contains("after-submit", shots))

\* C3 (as claimed): run returns success with 'Receipt created successfully'
\* only in runs where the commit control was clicked before.
C3_CreatedOnlyAfterCommit ==
  (Succeeded /\ result.message = "Receipt created successfully") => commitClicked

\* C4 (as claimed): once the deposit form has been opened, fill_receipt_form
\* returns only after attempting the fields date, payer name, reason (when
\* given) and amount, in that order.
C4_FieldsAttemptedBeforeReturn ==
  (pc = "run_return" /\ opened # 0)
    => fields \in {<<"date", "received_from", "reason", "amount">>,
                   <<"date", "received_from", "amount">>}

\* browser.close() itself raised
CloseFailed == exc = Error(<<"close failed">>)

\* C5 (as claimed): no run ends with an acquired browser still open, on any
\* exit path, one user interruption in any state included (a close call that
\* itself fails aside).
C5_BrowserClosedOnEveryExit ==
  (pc = "done" /\ interrupts <= 1 /\ ~CloseFailed) => browser # "open"

\* C6 (as claimed): in every finished run that launched a browser,
\* browser.close was invoked exactly once, also when the run was interrupted.
C6_CloseExactlyOnce ==
  (pc = "done" /\ browser # "none" /\ interrupts <= 1) => closeCalls = 1

\* C7: login enters the two-factor step exactly when the URL read after the
\* credentials were submitted does not contain 'dashboard'; the 2FA field
\* lookup, the code generation and the manual prompt happen only in that
\* case, and in that case login completes only through 2FA verification.
C7_TwoFactorIffNotDashboard ==
  /\ current_url = <<>> => ~twoFaEntered
  /\ current_url # <<>> => (twoFaEntered <=> ~Contains("dashboard", current_url))
  /\ (pc \in TwoFaPcs \/ totpCalls > 0 \/ prompted \/ code.src # "none")
       => twoFaEntered
  /\ pc = "nav_goto" => current_url # <<>>
  /\ (pc = "nav_goto" /\ ~twoFaEntered) => Contains("dashboard", current_url)
  /\ (pc = "nav_goto" /\ twoFaEntered) => (url = DashboardUrl /\ code.src # "none")
\* the two-factor step entered from a post-login URL that is not a dashboard URL
C7_Witness ==
  /\ pc = "fill_code"
  /\ twoFaEntered
  /\ current_url = <<"app.smokeball.com.au", "#", "home">>

\* the run left the two-factor block without a code for a reason other than
\* a missing secret
EndedWithoutCodeExcused ==
  \/ failure.cause = <<"2FA field not found">> /\ ~prompted
  \/ failure.cause = <<"EOFError">> /\ prompted
  \/ failure = NoFailure /\ interrupts > 0

\* C8 (as claimed): with 2FA required and no TOTP secret configured,
\* generate_totp_code is not called and the run does not fail or end before
\* the operator's code has been read.
C8_NeverEndsBeforeCodeRead ==
  (twoFaEntered /\ NoSecretConfigured /\ interrupts = 0)
    => /\ totpCalls = 0
       /\ pc \in AbortedPcs => code.src = "manual"

\* C8 (amended): with 2FA required and no TOTP secret configured,
\* generate_totp_code is never called and no generated code is used; once
\* the 2FA field has been found the manual prompt is reached, and the run
\* ends without the operator's code only because the 2FA field was not
\* found, standard input was closed at the prompt, or the user interrupted.
C8_NoSecretPromptsForCode ==
  (twoFaEntered /\ NoSecretConfigured)
    => /\ totpCalls = 0
       /\ code.src # "totp"
       /\ pc \in {"prompt", "fill_code", "verify", "press_enter",
                  "wait_dashboard"} => prompted
       /\ pc \in {"fill_code", "verify", "press_enter", "wait_dashboard"}
            => code.src = "manual"
       /\ (pc \in AbortedPcs /\ code.src = "none") => EndedWithoutCodeExcused
\* suspended at the manual prompt, no secret configured
C8_Witness ==
  /\ pc = "prompt"
  /\ prompted
  /\ credentials.two_factor_secret = NoSecret
  /\ totpCalls = 0

\* C9 (as claimed): a malformed secret makes automatic generation fail and
\* the two-factor step falls back to the manual prompt; the session is not
\* aborted by the malformed secret.
C9_MalformedFallsBackToManual ==
  (MalformedSecretConfigured /\ pyotp /\ totpCalls > 0 /\ interrupts = 0)
    => (prompted /\ failure = NoFailure)

\* C9 (amended): a malformed secret makes automatic generation fail with a
\* decoding error and there is no fallback to manual entry: the error is a
\* two-factor failure, nothing is prompted, no code is filled, the
\* transactions page is never visited, and an uninterrupted run whose
\* browser closes without error returns success = False with 'Login failed: 2FA failed: <decoding error>'.
C9_MalformedFailsTwoFactor ==
  (MalformedSecretConfigured /\ pyotp /\ totpCalls > 0)
    => /\ totpCalls = 1
       /\ ~prompted
       /\ code.src = "none"
       /\ ~navigated
       /\ failure = [stage |-> "2fa", cause |-> <<"binascii.Error">>]
       /\ (pc = "done" /\ interrupts = 0 /\ ~CloseFailed)
            => /\ result = [success |-> FALSE,
                            error |-> <<"Login failed", "2FA failed",
                                        "binascii.Error">>,
                            message |-> FailureMessage(test_mode)]
               /\ Contains("2fa-error", shots)
\* a finished run that failed on a malformed secret
C9_Witness ==
  /\ pc = "done"
  /\ MalformedSecretConfigured
  /\ pyotp
  /\ totpCalls = 1
  /\ Failed
  /\ interrupts = 0

\* C10: a failure inside the two-factor step aborts the session: nothing of
\* the navigation and form stages happens afterwards; unless the user
\* interrupts, the '2fa-error' screenshot is taken, the error raised is
\* '2FA failed' with the cause, and run (its browser closing without error)
\* returns success = False with it.
C10_TwoFactorFailureAborts ==
  failure.stage = "2fa"
    => /\ pc \in AbortedPcs
       /\ ~navigated
       /\ tried = <<>> /\ opened = 0 /\ fields = <<>> /\ ~commitClicked
       /\ ~Succeeded
       /\ (interrupts = 0 /\ pc # "h_2fa") => Contains("2fa-error", shots)
       /\ (interrupts = 0 /\ pc = "h_login")
            => exc = Error(<<"2FA failed">> \o failure.cause)
       /\ (interrupts = 0 /\ pc = "done" /\ ~CloseFailed)
            => /\ Failed
               /\ result.error = <<"Login failed", "2FA failed">> \o failure.cause
               /\ result.message = FailureMessage(test_mode)
\* a finished run whose two-factor code was rejected
C10_Witness ==
  /\ pc = "done"
  /\ failure = [stage |-> "2fa", cause |-> <<"dashboard not reached">>]
  /\ Failed
  /\ Contains("2fa-error", shots)
  /\ interrupts = 0

\* positions inside the deposit-control strategies
ChainPcs == {"s_visible", "s1_click", "s1_menu_visible", "s1_menu_click",
             "s_click", "s_all", "s_item"}
AllStrategies == [k \in 1..NumStrategies |-> k]
\* run returned (no exception left it)
RunReturned == pc \in {"main", "done"} /\ exc = NoExc

RequiredFields == {"date", "received_from", "amount"}

\* C13 (as claimed): during form filling a field that cannot be located or
\* filled never aborts the run: when run returns after the deposit form was
\* opened, every field has been attempted, whatever became of the fields
\* before it, and the result is a success.
C13_FieldFailuresNeverAbort ==
  (opened # 0 /\ RunReturned)
    => /\ Succeeded
       /\ \A f \in RequiredFields : Contains(f, fields)

\* C14: in navigate_to_matter_transactions a failed wait for network idle
\* and a failed wait for page content are not fatal: no stage failure comes
\* of them and the uninterrupted run goes on to the form-filling stage; the
\* only failure of the navigation stage is that of page.goto itself, after
\* which nothing of the form stage happens.
C14_NavigationWaitsSoftFail ==
  /\ failure.stage = "navigate"
       => /\ failure.cause = <<"goto transactions failed">>
          /\ ~idle_timeout
          /\ ~Contains("transactions-page-error", shots)
          /\ ~Contains("transactions-page-loaded", shots)
          /\ tried = <<>> /\ opened = 0
          /\ pc \in AbortedPcs
          /\ ~Succeeded
  /\ (idle_timeout \/ Contains("transactions-page-error", shots))
       => /\ navigated
          /\ failure.stage \in {"none", "open_form"}
          /\ (interrupts = 0 /\ pc # "nav_content")
               => /\ Contains("transactions-page-loaded", shots)
                  /\ pc = "fill_begin" \/ Contains("before-fill-form", shots)
\* a run that succeeded although both waits of the navigation stage failed
C14_Witness ==
  /\ pc = "done"
  /\ idle_timeout
  /\ Contains("transactions-page-error", shots)
  /\ opened # 0
  /\ Succeeded
  /\ interrupts = 0

\* the keys of the result run returned
IsSummary(r) ==
  /\ "success" \in DOMAIN r
  /\ r.success => DOMAIN r = {"success", "message"}
  /\ ~r.success => (DOMAIN r = {"success", "error", "message"} /\ r.error # <<>>)

\* C15 (as claimed): every run, also one that fails in any stage and one the
\* user interrupts, prints the summary {success, message, error?} as its
\* last output before exit.
C15_SummaryOnEveryPath ==
  pc = "done" => (final_output = "Final Result" /\ IsSummary(result))

\* C15 (amended): every run from which run returns, with success or with a
\* failure of any stage, prints the summary as its last output before exit;
\* success = False always comes with a non-empty error and success = True
\* never carries one.  A run ended by a user interruption or by an error of
\* browser.close produces no summary: its last output is the notice
\* 'Interrupted by user' or 'Unexpected error'.
C15_SummaryWhenRunReturns ==
  /\ result # NoResult => IsSummary(result)
  /\ (failure # NoFailure /\ result # NoResult)
       => (Failed /\ result.error # <<>>)
  /\ pc = "done"
       => /\ exc = NoExc
               => (final_output = "Final Result" /\ IsSummary(result))
          /\ exc.kind = "Interrupt"
               => (final_output = "Interrupted by user" /\ result = NoResult
                   /\ interrupts > 0)
          /\ exc.kind = "Exception"
               => (final_output = "Unexpected error" /\ result = NoResult
                   /\ CloseFailed)
          /\ (interrupts = 0 /\ ~CloseFailed) => final_output = "Final Result"
\* a finished run that failed in the navigation stage and printed its summary
C15_Witness ==
  /\ pc = "done"
  /\ failure.stage = "navigate"
  /\ Failed
  /\ final_output = "Final Result"

\* C16 (as claimed): the exit code is 0 exactly when run's result has
\* success = True, and 1 on any stage failure, any unexpected error and any
\* user interruption.
C16_ExitCode ==
  pc = "done"
    => /\ exitCode = <<0>> <=> Succeeded
       /\ (failure # NoFailure \/ exc.kind = "Exception" \/ interrupts > 0)
            => exitCode = <<1>>

C18_MissingCredentialIsFatal ==
  (~env.SMOKEBALL_USERNAME.present \/ ~env.SMOKEBALL_PASSWORD.present)
    => (browser = "none" /\ url = <<>>)

\* the stage a screenshot's name tells ("none": the name tells no stage)
StageOfShot(name) ==
  CASE name \in {"login-page", "login-error"} -> "login"
    [] name = "2fa-error" -> "2fa"
    [] name \in {"transactions-page-error", "transactions-page-loaded"}
         -> "navigate"
    [] name \in {"before-fill-form", "create-new-menu-opened",
                 "deposit-dialog-opened", "deposit-button-not-found"}
         -> "open_form"
    [] OTHER -> "none"
\* positions of run's finally block and after it
ClosingPcs == {"pre_close_wait", "cleanup", "main", "done"}

\* C19 (as claimed): on an unhandled error of any stage a screenshot tagged
\* with the failing stage is attempted before the browser is closed.
C19_ScreenshotTaggedWithStage ==
  (failure # NoFailure /\ interrupts = 0 /\ pc \in ClosingPcs)
    => \E i \in 1..Len(shots) : StageOfShot(shots[i]) = failure.stage

\* C19 (amended): on an unhandled error of any stage the screenshot
\* 'automation-error' (one name for every stage) is attempted before the
\* browser is closed; failures of login, two-factor and open-form get
\* 'login-error', '2fa-error' and 'deposit-button-not-found' before it; no
\* screenshot follows the close, and the uninterrupted run goes on to close
\* the browser it launched, also when the screenshot cannot be taken.
C19_ErrorScreenshotBeforeClose ==
  /\ closeCalls > 0 => pc \in {"main", "done"}
  /\ (failure # NoFailure /\ interrupts = 0)
       => /\ pc \in ClosingPcs
               => /\ shots # <<>>
                  /\ shots[Len(shots)] = "automation-error"
          /\ (pc \in ClosingPcs /\ failure.stage = "2fa")
               => Contains("2fa-error", shots)
          /\ (pc \in ClosingPcs /\ failure.stage \in {"login", "2fa"})
               => Contains("login-error", shots)
          /\ (pc \in ClosingPcs /\ failure.stage = "open_form")
               => Contains("deposit-button-not-found", shots)
          /\ closeCalls > 0 => Contains("automation-error", shots)
          /\ pc \in {"main", "done"}
               => closeCalls = IF browser = "none" THEN 0 ELSE 1
\* new_page failed: the screenshot was attempted without a page, so it could
\* not be taken, and the browser was closed all the same
C19_Witness ==
  /\ pc = "done"
  /\ failure.stage = "initialize"
  /\ ~page
  /\ shots = <<"automation-error">>
  /\ browser = "closed"
  /\ closeCalls = 1
  /\ interrupts = 0

\* the state the constructor left the automation object in
Untouched ==
  /\ pc = "launch" /\ browser = "none" /\ ~page /\ url = <<>> /\ shots = <<>>
  /\ code = [src |-> "none"] /\ ~twoFaEntered /\ ~navigated

\* C21: a call of generate_totp_code with the secret absent, empty or
\* malformed, or without the OTP library, ends with an error and no code,
\* and leaves the session as the constructor left it
C21_NoCodeWithoutUsableSecret ==
  (/\ gen # <<>>
   /\ \/ ~Truthy(credentials.two_factor_secret)
      \/ ~ValidBase32(credentials.two_factor_secret)
      \/ ~pyotp)
  => /\ ~gen[1].ok
     /\ gen[1].err # ""
     /\ gen[1].code = <<>>
     /\ Untouched
\* the test script called generate_totp_code with a malformed secret
C21_Witness ==
  /\ tpc = "summary"
  /\ gen # <<>>
  /\ ~gen[1].ok
  /\ Truthy(credentials.two_factor_secret)
  /\ ~ValidBase32(credentials.two_factor_secret)
  /\ test2_result = <<FALSE>>

\* C22 (as claimed): a test-mode run in which login, navigation and the
\* opening of the deposit form all succeed takes the 'form-filled' checkpoint
\* (which the 30-second observation hold follows) before the browser is
\* closed, and returns exactly {success: true, message: 'Receipt form filled
\* successfully'}.
C22_TestModeHoldsBeforeClose ==
  (test_mode /\ opened # 0 /\ pc = "done" /\ interrupts = 0 /\ ~CloseFailed)
    => /\ Contains("form-filled", shots)
       /\ result = [success |-> TRUE, message |-> "Receipt form filled successfully"]

\* C23 (as claimed): a strategy that does not end by clicking the deposit
\* control leaves the page as it found it: while no click has opened the
\* form, every strategy after the first runs with no 'Create New' menu open.
C23_FailedStrategyLeavesPageUnchanged ==
  (pc \in ChainPcs /\ opened = 0 /\ strat >= 2) => ~menuOpen

\* C27 (as claimed): with test mode off, a run that opened the deposit form
\* and did not get the commit control clicked is a failed run: it returns
\* {success: false, message: 'Failed to create receipt'} with the error text
\* after the 'automation-error' screenshot, and never success.
C27_CommitFailureIsFatal ==
  (~test_mode /\ RunReturned /\ opened # 0 /\ ~commitClicked)
    => /\ Failed
       /\ result.message = "Failed to create receipt"
       /\ result.error # <<>>
       /\ Contains("automation-error", shots)

\* C28 (as claimed): the remaining validity printed next to a code is the
\* number of seconds to the next window boundary, interval - (current time
\* mod interval), a value in 1..30 whatever the digits of the code.
C28_RemainingIsTimeToBoundary ==
  remaining_time # <<>>
    => /\ remaining_time[1].value = Interval - (remaining_time[1].at % Interval)
       /\ remaining_time[1].value \in 1..Interval

\* the stage a control position belongs to, in the order run calls them:
\* 1 initialize, 2 login, 3 navigate_to_matter_transactions,
\* 4 fill_receipt_form, 5 the exception handlers and run's return,
\* 6 run's finally block, 7 main, 8 the process has exited
StageRank(p) ==
  CASE p \in {"launch", "new_page"} -> 1
    [] p \in {"login_goto", "email_wait", "email_fallback", "fill_user",
              "fill_pass", "click_login", "click_login_fallback", "check_url",
              "wait_2fa", "get_code", "prompt", "fill_code", "verify",
              "press_enter", "wait_dashboard"} -> 2
    [] p \in {"nav_goto", "nav_idle", "nav_content"} -> 3
    [] p \in {"fill_begin", "not_found"} \cup ChainPcs -> 4
    [] p \in {"h_2fa", "h_login", "h_run", "run_return"} -> 5
    [] p \in {"pre_close_wait", "cleanup"} -> 6
    [] p = "main" -> 7
    [] OTHER -> 8
\* the first control position of each stage
StageEntries == {"launch", "login_goto", "nav_goto", "fill_begin"}

\* C24: the stages occur only in the order initialize, login, navigate,
\* fill: login starts from a created page; control reaches the navigation
\* stage only from login's URL check with the dashboard in the URL or from a
\* successful wait for the dashboard after the two-factor code; the
\* transactions URL is requested only there; and the deposit-form stage
\* starts only when the navigation stage has run to its end.
C24_Step ==
  /\ (pc' # pc /\ pc' = "login_goto") => (pc = "new_page" /\ page')
  /\ (pc' # pc /\ pc' = "nav_goto")
       => /\ pc \in {"check_url", "wait_dashboard"}
          /\ Contains("dashboard", url')
          /\ pc = "wait_dashboard" => (twoFaEntered /\ code.src # "none")
  /\ (navigated' /\ ~navigated)
       => (pc = "nav_goto" /\ Contains("dashboard", url))
  /\ (pc' # pc /\ pc' = "fill_begin") => (pc = "nav_content" /\ navigated)
  /\ (tried = <<>> /\ tried' # <<>>) => pc = "fill_begin"
C24_StagesInOrder == [][C24_Step]_vars
\* a run that went through two-factor authentication, navigated, tried the
\* strategies and ended
C24_Witness ==
  /\ pc = "done" /\ twoFaEntered /\ code.src = "totp" /\ navigated
  /\ opened # 0 /\ Succeeded

\* C25: nothing is retried: control never moves back to an earlier stage,
\* the first position of a stage is entered only from an earlier stage, once
\* a stage has failed control is in the handlers or beyond, and a strategy
\* is entered only if it was not entered before.
C25_Step ==
  /\ StageRank(pc') >= StageRank(pc)
  /\ (pc' # pc /\ pc' \in StageEntries) => StageRank(pc) < StageRank(pc')
  /\ failure' # NoFailure => StageRank(pc') >= 5
  /\ tried' # tried
       => \E k \in 1..NumStrategies :
            /\ tried' = Append(tried, k)
            /\ \A i \in 1..Len(tried) : tried[i] # k
C25_NoRetry == [][C25_Step]_vars
\* a run whose login failed, and which ended without another attempt
C25_Witness ==
  /\ pc = "done" /\ failure.stage = "login" /\ ~navigated /\ tried = <<>>
  /\ Failed

\* the process has exited with a status, its browser closed (or never
\* launched); a run the user interrupted, or whose close call failed, may
\* have left the browser to the exit of the process
Terminated ==
  /\ pc = "done"
  /\ exitCode # <<>>
  /\ (interrupts = 0 /\ ~CloseFailed) => browser # "open"

\* C26: the manual two-factor prompt is the only wait without a bound: every
\* run in which each bounded wait ends (by success or timeout) either comes
\* to the manual prompt or terminates, closing the browser and producing its
\* exit status.
C26_TerminatesUnlessPrompted == <>(pc = "prompt" \/ Terminated)
\* a run that generated its two-factor code, was never prompted, and ended
C26_Witness ==
  /\ Terminated /\ ~prompted /\ twoFaEntered /\ code.src = "totp"
  /\ browser = "closed" /\ interrupts = 0

====
